---------------------------- MODULE Spec2Model ----------------------------
(***************************************************************************)
(* carl-ff: the codec of Firefox's ClientAuthRememberList.bin               *)
(* (src/carl_ff/carl_ff.py) and the command line tool that drives it        *)
(* (src/carl_ff/main.py).                                                   *)
(*                                                                          *)
(* Bytes objects and str objects are sequences of numbers: a bytes object   *)
(* is a sequence over 0..255, a str a sequence of code points.  A call      *)
(* that may raise returns a record [err, val]: err = "" is a normal return  *)
(* of val, any other err names the exception that was raised.               *)
(***************************************************************************)
EXTENDS Integers, Sequences, FiniteSets

VARIABLES
    entry,            \* SpecEntry: the ClientAuthRememberListEntry under test
    data,             \* SpecEntry: the 1280-byte region handed to from_bytes
    decoded,          \* SpecEntry: what from_bytes returned or raised
    entries_allowed,  \* ClientAuthRememberList.entries_allowed
    entries_blocked,  \* ClientAuthRememberList.entries_blocked
    added,            \* history: the surviving entries in the order add_entry got them
    ret,              \* outcome of the most recent call on the list
    file,             \* the bytes of ClientAuthRememberList.bin on disk
    origin,           \* history: "to_bytes" while every byte of `file` came from to_bytes
    pc                \* position of the run

vars == <<entry, data, decoded, entries_allowed, entries_blocked, added, ret,
          file, origin, pc>>

---------------------------------------------------------------------------
(* Python values *)

Ok(v) == [err |-> "", val |-> v]

Raise(e) == [err |-> e, val |-> <<>>]

\* K(v), with v evaluated once, before K reads it
With(v, K(_)) == CHOOSE y \in {K(x) : x \in {v}} : TRUE

\* None, for the optional certificate and the optional port
None == [type |-> "NoneType", num |-> 0, text |-> <<>>]

PyInt(n) == [type |-> "int", num |-> n, text |-> <<>>]

PyStr(s) == [type |-> "str", num |-> 0, text |-> s]

PyBytes(b) == [type |-> "bytes", num |-> 0, text |-> b]

Zeros(n) == [i \in 1..n |-> 0]

\* while len(buf) < n: buf += b'\x00'
PadTo(buf, n) == IF Len(buf) < n THEN buf \o Zeros(n - Len(buf)) ELSE buf

\* buf[lo:hi] of Python, lo and hi 0-based and non-negative
Slice(buf, lo, hi) ==
    LET h == IF hi > Len(buf) THEN Len(buf) ELSE hi
    IN  IF lo >= h THEN <<>> ELSE SubSeq(buf, lo + 1, h)

\* the first index i (1-based) with buf[i..] starting with pat, 0 if none
Find(buf, pat) ==
    With(buf, LAMBDA b :
        LET hits == {i \in 1..(Len(b) - Len(pat) + 1) :
                        \A k \in 1..Len(pat) : b[i + k - 1] = pat[k]}
        IN  IF hits = {} THEN 0 ELSE CHOOSE i \in hits : \A j \in hits : i <= j)

StartsAt(buf, i, pat) ==
    /\ i >= 1
    /\ i + Len(pat) - 1 <= Len(buf)
    /\ \A k \in 1..Len(pat) : buf[i + k - 1] = pat[k]

\* bytes.rstrip(b'\x00')
RStripZeros(buf) ==
    With(buf, LAMBDA b :
        SubSeq(b, 1, CHOOSE n \in 0..Len(b) :
                         /\ n = 0 \/ b[n] # 0
                         /\ \A j \in (n + 1)..Len(b) : b[j] = 0))

\* bytes.lstrip(b'\x00')
LStripZeros(buf) ==
    With(buf, LAMBDA b :
        SubSeq(b, CHOOSE n \in 1..(Len(b) + 1) :
                      /\ n = Len(b) + 1 \/ b[n] # 0
                      /\ \A j \in 1..(n - 1) : b[j] = 0,
               Len(b)))

\* str.encode('ascii'): UnicodeEncodeError on a code point above 127
EncodeAscii(s) ==
    With(s, LAMBDA t :
        IF \A i \in 1..Len(t) : t[i] < 128 THEN Ok(t) ELSE Raise("UnicodeEncodeError"))

\* bytes.decode() (UTF-8).  ASCII bytes decode to themselves.  The only other
\* byte in the inputs of this model is 0xFF, which is part of no UTF-8
\* sequence and raises UnicodeDecodeError.
DecodeUtf8(b) ==
    With(b, LAMBDA t :
        IF \A i \in 1..Len(t) : t[i] < 128 THEN Ok(t) ELSE Raise("UnicodeDecodeError"))

\* the decimal digits of a non-negative int
RECURSIVE Digits(_)
Digits(n) == IF n < 10 THEN <<48 + n>> ELSE Digits(n \div 10) \o <<48 + (n % 10)>>

\* str(x) of a port value: an int prints as decimal digits (with a sign), a
\* str as itself, None as "None", and a bytes object as its repr b'...'
\* (every byte of a port that from_bytes captured is printable ASCII other
\* than the quote and the backslash, so repr copies it)
Str(x) ==
    CASE x.type = "int"   -> IF x.num < 0 THEN <<45>> \o Digits(0 - x.num) ELSE Digits(x.num)
      [] x.type = "str"   -> x.text
      [] x.type = "bytes" -> <<98, 39>> \o x.text \o <<39>>
      [] OTHER            -> <<78, 111, 110, 101>>

\* a ^ b on non-negative ints
RECURSIVE Xor(_, _)
Xor(a, b) ==
    IF a = 0 THEN b
    ELSE IF b = 0 THEN a
    ELSE (((a % 2) + (b % 2)) % 2) + (2 * Xor(a \div 2, b \div 2))

\* struct.pack('>H', n): struct.error outside 0..65535
PackH(n) ==
    IF n < 0 \/ n > 65535 THEN Raise("struct.error")
    ELSE Ok(<<n \div 256, n % 256>>)

\* struct.pack('>I', n), n a length
PackI(n) == <<(n \div 16777216) % 256, (n \div 65536) % 256, (n \div 256) % 256, n % 256>>

\* struct.unpack('>I', b), Len(b) = 4
UnpackI(b) == ((b[1] * 256 + b[2]) * 256 + b[3]) * 256 + b[4]

\* int.from_bytes(b, 'big')
RECURSIVE IntFromBytes(_)
IntFromBytes(b) ==
    IF b = <<>> THEN 0 ELSE IntFromBytes(SubSeq(b, 1, Len(b) - 1)) * 256 + b[Len(b)]

\* the low `length` bytes of n, big-endian
RECURSIVE BigEndian(_, _)
BigEndian(n, length) ==
    IF length = 0 THEN <<>> ELSE BigEndian(n \div 256, length - 1) \o <<n % 256>>

RECURSIVE ShiftRight(_, _)
ShiftRight(n, length) == IF length = 0 THEN n ELSE ShiftRight(n \div 256, length - 1)

\* int.to_bytes(length): OverflowError when n is negative or needs more bytes
IntToBytes(n, length) ==
    IF n < 0 \/ ShiftRight(n, length) # 0 THEN Raise("OverflowError")
    ELSE Ok(BigEndian(n, length))

---------------------------------------------------------------------------
(* base64 *)

B64_ALPHABET ==
    <<65,66,67,68,69,70,71,72,73,74,75,76,77,78,79,80,81,82,83,84,85,86,87,88,89,90,
      97,98,99,100,101,102,103,104,105,106,107,108,109,110,111,112,113,114,115,116,
      117,118,119,120,121,122,48,49,50,51,52,53,54,55,56,57,43,47>>

B64_PAD == <<61>>

\* the value 0..63 of a base64 character, 64 for any other byte
B64Value(c) ==
    IF c >= 65 /\ c <= 90 THEN c - 65
    ELSE IF c >= 97 /\ c <= 122 THEN c - 71
    ELSE IF c >= 48 /\ c <= 57 THEN c + 4
    ELSE IF c = 43 THEN 62
    ELSE IF c = 47 THEN 63
    ELSE 64

\* base64.b64encode(b)
b64encode(b) ==
    With(b, LAMBDA t :
        LET n == Len(t)
            At(j) == IF j <= n THEN t[j] ELSE 0
            Char(i) ==
                LET g  == (i - 1) \div 4
                    k  == (i - 1) % 4
                    b0 == At(3 * g + 1)
                    b1 == At(3 * g + 2)
                    b2 == At(3 * g + 3)
                IN  IF k = 0 THEN B64_ALPHABET[(b0 \div 4) + 1]
                    ELSE IF k = 1 THEN B64_ALPHABET[((b0 % 4) * 16) + (b1 \div 16) + 1]
                    ELSE IF k = 2
                    THEN IF 3 * g + 2 > n THEN B64_PAD[1]
                         ELSE B64_ALPHABET[((b1 % 16) * 4) + (b2 \div 64) + 1]
                    ELSE IF 3 * g + 3 > n THEN B64_PAD[1]
                         ELSE B64_ALPHABET[(b2 % 64) + 1]
        IN  Zeros(0) \o [i \in 1..(4 * ((n + 2) \div 3)) |-> Char(i)])

\* a character of the base64 alphabet
IsB64Char(c) == B64Value(c) < 64

\* the bytes of a sequence of base64 characters, an incomplete last quad of
\* two or three characters giving one or two bytes
B64Bytes(chars) ==
    With(chars, LAMBDA c :
        LET m     == Len(c)
            V(j)  == B64Value(c[j])
            Out(i) ==
                LET g == (i - 1) \div 3
                    k == (i - 1) % 3
                IN  IF k = 0 THEN (V(4 * g + 1) * 4) + (V(4 * g + 2) \div 16)
                    ELSE IF k = 1 THEN ((V(4 * g + 2) % 16) * 16) + (V(4 * g + 3) \div 4)
                    ELSE ((V(4 * g + 3) % 4) * 64) + V(4 * g + 4)
            outlen == (3 * (m \div 4)) + (IF m % 4 = 0 THEN 0 ELSE (m % 4) - 1)
        IN  Zeros(0) \o [i \in 1..outlen |-> Out(i)])

\* where a2b_base64 stops reading s: the first pad that completes a quad of
\* two or three characters (quad_pos + pads >= 4), 0 if there is none
B64Stop(s) ==
    With(s, LAMBDA t :
        LET \* quad_pos when t[i] is read
            QuadPos(i) == Cardinality({j \in 1..(i - 1) : IsB64Char(t[j])}) % 4
            \* pads once the pad t[i] is counted
            Pads(i) == Cardinality({j \in 1..i :
                           /\ t[j] = B64_PAD[1]
                           /\ \A k \in j..i : ~IsB64Char(t[k])})
            stops == {i \in 1..Len(t) :
                         /\ t[i] = B64_PAD[1]
                         /\ QuadPos(i) >= 2
                         /\ QuadPos(i) + Pads(i) >= 4}
        IN  IF stops = {} THEN 0 ELSE CHOOSE i \in stops : \A j \in stops : i <= j)

\* base64.b64decode(s) (binascii.a2b_base64, not strict): bytes outside the
\* alphabet are skipped; a pad that completes a quad of two or three
\* characters ends the input; an incomplete quad at the end of the input
\* raises binascii.Error
b64decode(s) ==
    With(s, LAMBDA t :
    With(B64Stop(t), LAMBDA stop :
    With(SelectSeq(IF stop = 0 THEN t ELSE SubSeq(t, 1, stop - 1), IsB64Char), LAMBDA chars :
        IF stop = 0 /\ Len(chars) % 4 # 0 THEN Raise("binascii.Error")
        ELSE Ok(B64Bytes(chars)))))

---------------------------------------------------------------------------
(* class ClientCert *)

ClientCert(serial_number, issuer) ==
    [serial_number |-> serial_number, issuer |-> issuer]

\* (self.serial_number).to_bytes(20).lstrip(b'\x00')
get_serial_bytes(self) ==
    LET r == IntToBytes(self.serial_number, 20)
    IN  IF r.err # "" THEN r ELSE Ok(LStripZeros(r.val))

get_serial_len(self) ==
    LET r == get_serial_bytes(self)
    IN  IF r.err # "" THEN r ELSE Ok(Len(r.val))

get_issuer_len(self) == Len(self.issuer)

---------------------------------------------------------------------------
(* class ClientAuthRememberListEntry *)

KEY_LENGTH == 256

ENTRY_LENGTH == 1280

PARTITION_KEY == <<44,44,94,112,97,114,116,105,116,105,111,110,75,101,121,61,37,50,56>>

PERCENT_2C == <<37,50,67>>

PERCENT_28 == <<37,50,56>>

PERCENT_29 == <<37,50,57>>

NO_CLIENT_CERTIFICATE ==
    <<110,111,32,99,108,105,101,110,116,32,99,101,114,116,105,102,105,99,97,116,101>>

\* host.split('.')[-1]: the text after the last dot alone
Tld_last_label(host) ==
    With(host, LAMBDA h :
        LET dots == {i \in 1..Len(h) : h[i] = 46}
            last == CHOOSE i \in dots : \A j \in dots : j <= i
        IN  IF dots = {} THEN h ELSE SubSeq(h, last + 1, Len(h)))

\* '.'.join(host.split('.')[-2:]): the text after the last dot but one
Tld(host) ==
    With(host, LAMBDA h :
        LET dots == {i \in 1..Len(h) : h[i] = 46}
            last == CHOOSE i \in dots : \A j \in dots : j <= i
            rest == dots \ {last}
            prev == CHOOSE i \in rest : \A j \in rest : j <= i
        IN  IF Cardinality(dots) <= 1 THEN h ELSE SubSeq(h, prev + 1, Len(h)))

\* __init__: last_modified is a day count since 1970-01-01, or None, and then
\* `now`, the day datetime.datetime.now() falls on, is stored
ClientAuthRememberListEntry(host, cert, port, scheme, last_modified, now) ==
    [host          |-> host,
     cert          |-> cert,
     port          |-> port,
     scheme        |-> scheme,
     last_modified |-> IF last_modified = None THEN now ELSE last_modified.num,
     tld           |-> Tld(host)]

\* the certificate descriptor before base64: module ID, entry ID, the two
\* lengths, the serial number, the issuer
CertBuf(cert) ==
    With(get_serial_bytes(cert), LAMBDA serial :
        IF serial.err # "" THEN serial
        ELSE Ok(Zeros(4) \o Zeros(4) \o PackI(Len(serial.val))
                \o PackI(get_issuer_len(cert)) \o serial.val \o cert.issuer))

KeyText(self) ==
    LET host   == EncodeAscii(self.host)
        scheme == EncodeAscii(self.scheme)
        tld    == EncodeAscii(self.tld)
        port   == IF self.port # None THEN EncodeAscii(Str(self.port)) ELSE Ok(<<>>)
    IN  IF host.err # "" THEN host
        ELSE IF scheme.err # "" THEN scheme
        ELSE IF tld.err # "" THEN tld
        ELSE IF port.err # "" THEN port
        ELSE Ok(host.val \o PARTITION_KEY \o scheme.val \o PERCENT_2C \o tld.val
                \o (IF self.port # None THEN PERCENT_2C \o port.val ELSE <<>>)
                \o PERCENT_29)

\* ClientAuthRememberListEntry.to_bytes
Entry_to_bytes(self) ==
    With(KeyText(self), LAMBDA key :
    With(IF self.cert # None THEN CertBuf(self.cert) ELSE Ok(<<>>), LAMBDA cert :
        IF key.err # "" THEN key
        ELSE IF cert.err # "" THEN cert
        ELSE LET buf == PadTo(key.val, KEY_LENGTH)
                 reg == IF self.cert # None THEN b64encode(cert.val)
                        ELSE NO_CLIENT_CERTIFICATE
             IN  Ok(PadTo(buf \o reg, ENTRY_LENGTH))))

\* \w of a bytes pattern
IsWord(c) ==
    \/ c >= 97 /\ c <= 122
    \/ c >= 65 /\ c <= 90
    \/ c >= 48 /\ c <= 57
    \/ c = 95

\* [a-zA-Z0-9.-]
IsDomainChar(c) ==
    \/ c >= 97 /\ c <= 122
    \/ c >= 65 /\ c <= 90
    \/ c >= 48 /\ c <= 57
    \/ c = 46
    \/ c = 45

\* \d of a bytes pattern
IsDigit(c) == c >= 48 /\ c <= 57

\* the index after the longest run of bytes of class In that starts at i
RunEnd(buf, i, In(_)) ==
    IF i > Len(buf) THEN i
    ELSE CHOOSE j \in i..(Len(buf) + 1) :
             /\ j = Len(buf) + 1 \/ ~In(buf[j])
             /\ \A k \in i..(j - 1) : In(buf[k])

\* the match of %28(\w+)%2C([a-zA-Z0-9.-]+)(:?%2C(\d+))?%29 that starts at s.
\* No class holds '%' or ':', so each + can only take its whole run, and the
\* optional group 3 is taken exactly when %29 does not follow group 2.
MatchAt(buf, s) ==
    LET a  == s + 3
        b  == RunEnd(buf, a, IsWord)
        c  == b + 3
        e  == RunEnd(buf, c, IsDomainChar)
        f  == IF StartsAt(buf, e, <<58>>) THEN e + 1 ELSE e
        g  == f + 3
        h  == RunEnd(buf, g, IsDigit)
        no == [matched |-> FALSE, group1 |-> <<>>, group2 |-> <<>>, group3 |-> None]
    IN  IF ~(StartsAt(buf, s, PERCENT_28) /\ b > a /\ StartsAt(buf, b, PERCENT_2C) /\ e > c)
        THEN no
        ELSE IF StartsAt(buf, f, PERCENT_2C) /\ h > g /\ StartsAt(buf, h, PERCENT_29)
        THEN [matched |-> TRUE, group1 |-> SubSeq(buf, a, b - 1),
              group2 |-> SubSeq(buf, c, e - 1), group3 |-> PyBytes(SubSeq(buf, e, h - 1))]
        ELSE IF StartsAt(buf, e, PERCENT_29)
        THEN [matched |-> TRUE, group1 |-> SubSeq(buf, a, b - 1),
              group2 |-> SubSeq(buf, c, e - 1), group3 |-> None]
        ELSE no

\* regex.search(buf): the leftmost match
Search(buf) ==
    With(buf, LAMBDA b :
        LET starts == {s \in 1..Len(b) : StartsAt(b, s, PERCENT_28) /\ MatchAt(b, s).matched}
        IN  IF starts = {} THEN MatchAt(b, 0)
            ELSE MatchAt(b, CHOOSE s \in starts : \A t \in starts : s <= t))

\* the certificate of from_bytes: base64-decode, unpack the two lengths from
\* cert_data[8:16], slice the serial number and the issuer
DecodeCert(cert_data) ==
    With(b64decode(cert_data), LAMBDA raw :
        IF raw.err # "" THEN raw
        ELSE IF Len(Slice(raw.val, 8, 16)) # 8 THEN Raise("struct.error")
        ELSE LET serial_len   == UnpackI(Slice(raw.val, 8, 12))
                 issuer_len   == UnpackI(Slice(raw.val, 12, 16))
                 serial_bytes == Slice(raw.val, 16, 16 + serial_len)
                 issuer_bytes == Slice(raw.val, 16 + serial_len, 16 + serial_len + issuer_len)
             IN  Ok(ClientCert(IntFromBytes(serial_bytes), issuer_bytes)))

\* ClientAuthRememberListEntry.from_bytes; last_modified is a day count
from_bytes(bytes, last_modified) ==
    With(bytes, LAMBDA b :
    With(Find(b, <<44, 44>>), LAMBDA at :
        IF at = 0 THEN Raise("ValueError")
        ELSE
    With(DecodeUtf8(SubSeq(b, 1, at - 1)), LAMBDA host :
    With(Search(SubSeq(b, at + 2, Len(b))), LAMBDA match :
    With(RStripZeros(Slice(b, KEY_LENGTH, Len(b))), LAMBDA cert_data :
    With(IF cert_data # NO_CLIENT_CERTIFICATE THEN DecodeCert(cert_data) ELSE Ok(None),
         LAMBDA cert :
        IF host.err # "" THEN host
        ELSE IF ~match.matched THEN Raise("AttributeError")
        ELSE IF cert.err # "" THEN cert
        ELSE Ok(ClientAuthRememberListEntry(host.val, cert.val, match.group3,
                                            match.group1, PyInt(last_modified), 0))))))))

---------------------------------------------------------------------------
(* class ClientAuthRememberList *)

\* __init__
ClientAuthRememberList == [entries_allowed |-> <<>>, entries_blocked |-> <<>>]

\* an add_entry that inserts at the front of the list: list.insert(0, entry)
add_entry_front(self, e) ==
    IF e.cert = None
    THEN [self EXCEPT !.entries_blocked = <<e>> \o self.entries_blocked]
    ELSE [self EXCEPT !.entries_allowed = <<e>> \o self.entries_allowed]

\* ClientAuthRememberList.add_entry
add_entry(self, e) ==
    IF e.cert = None
    THEN [self EXCEPT !.entries_blocked = Append(self.entries_blocked, e)]
    ELSE [self EXCEPT !.entries_allowed = Append(self.entries_allowed, e)]

\* del list[i]: a negative i counts from the end; IndexError outside
\* -len(list) .. len(list) - 1
DelItem(list, i) ==
    LET n == Len(list)
        k == IF i < 0 THEN i + n ELSE i
    IN  IF i >= n \/ i < 0 - n THEN Raise("IndexError")
        ELSE Ok(SubSeq(list, 1, k) \o SubSeq(list, k + 2, n))

\* remove_entry: returns [err, val], val the list after the call
remove_entry(self, position) ==
    IF position < Len(self.entries_allowed)
    THEN LET r == DelItem(self.entries_allowed, position)
         IN  IF r.err # "" THEN [err |-> r.err, val |-> self]
             ELSE Ok([self EXCEPT !.entries_allowed = r.val])
    ELSE LET r == DelItem(self.entries_blocked, position - Len(self.entries_allowed))
         IN  IF r.err # "" THEN [err |-> r.err, val |-> self]
             ELSE Ok([self EXCEPT !.entries_blocked = r.val])

\* the 16-bit big-endian word at byte offset ctr (0-based)
UnpackH(buf, ctr) == (buf[ctr + 1] * 256) + buf[ctr + 2]

\* checksum ^= word, for the words lo..hi (0-based) of buf; the fold is split
\* in halves, ^ being associative
RECURSIVE XorWords(_, _, _)
XorWords(buf, lo, hi) ==
    IF lo > hi THEN 0
    ELSE IF lo = hi THEN UnpackH(buf, 2 * lo)
    ELSE With(XorWords(buf, lo, (lo + hi) \div 2), LAMBDA left :
         With(XorWords(buf, ((lo + hi) \div 2) + 1, hi), LAMBDA right :
             Xor(left, right)))

\* a slot whose checksum also folds in the two bytes of the day count that
\* precede entry_bytes in the slot
Slot_fold_days(e) ==
    With(PackH(e.last_modified), LAMBDA days :
    With(Entry_to_bytes(e), LAMBDA entry_bytes :
        IF days.err # "" THEN days
        ELSE IF entry_bytes.err # "" THEN entry_bytes
        ELSE IF Len(entry_bytes.val) % 2 # 0 THEN Raise("struct.error")
        ELSE With(Xor(Xor(Xor(1, e.last_modified), UnpackH(days.val, 0)),
                      XorWords(entry_bytes.val, 0, (Len(entry_bytes.val) \div 2) - 1)),
                  LAMBDA checksum :
                      Ok(PackH(checksum).val \o PackH(1).val \o days.val \o entry_bytes.val))))

\* one turn of the loop of to_bytes: the slot of one entry.  The while loop
\* reads entry_bytes two bytes at a time, and unpack_from raises struct.error
\* on the last byte of an odd-length buffer.
Slot(e) ==
    With(PackH(e.last_modified), LAMBDA days :
    With(Entry_to_bytes(e), LAMBDA entry_bytes :
        IF days.err # "" THEN days
        ELSE IF entry_bytes.err # "" THEN entry_bytes
        ELSE IF Len(entry_bytes.val) % 2 # 0 THEN Raise("struct.error")
        ELSE With(Xor(Xor(1, e.last_modified),
                      XorWords(entry_bytes.val, 0, (Len(entry_bytes.val) \div 2) - 1)),
                  LAMBDA checksum :
                      Ok(PackH(checksum).val \o PackH(1).val \o days.val \o entry_bytes.val))))

RECURSIVE Slots(_)
Slots(list) ==
    IF list = <<>> THEN Ok(<<>>)
    ELSE With(Slot(Head(list)), LAMBDA slot_buf :
             IF slot_buf.err # "" THEN slot_buf
             ELSE With(Slots(Tail(list)), LAMBDA rest :
                      IF rest.err # "" THEN rest ELSE Ok(slot_buf.val \o rest.val)))

\* ClientAuthRememberList.to_bytes
List_to_bytes(self) == Slots(self.entries_allowed \o self.entries_blocked)

\* the body of the loop of from_file for slot ctr: the slice, its header, the
\* entry; whatever it raises is caught by the except clause
ParseSlot(bytes, ctr) ==
    LET start      == (ENTRY_LENGTH + 6) * ctr
        end        == start + ENTRY_LENGTH + 6
        entry_data == Slice(bytes, start, end)
        last_modified_rel == UnpackH(entry_data, 4)
    IN  from_bytes(Slice(entry_data, 6, Len(entry_data)), last_modified_rel)

\* a loop without the except clause that goes on: the first slot that raises
\* ends it
RECURSIVE ParseSlots_abort(_, _, _, _)
ParseSlots_abort(bytes, ctr, slots, client_list) ==
    IF ctr >= slots THEN client_list
    ELSE With(ParseSlot(bytes, ctr), LAMBDA r :
             IF r.err # "" THEN client_list
             ELSE ParseSlots_abort(bytes, ctr + 1, slots, add_entry(client_list, r.val)))

RECURSIVE ParseSlots(_, _, _, _)
ParseSlots(bytes, ctr, slots, client_list) ==
    IF ctr >= slots THEN client_list
    ELSE With(ParseSlot(bytes, ctr), LAMBDA r :
         With(IF r.err # "" THEN client_list ELSE add_entry(client_list, r.val), LAMBDA next :
             ParseSlots(bytes, ctr + 1, slots, next)))

\* a from_file without the test of the length: the whole slots are parsed and
\* the rest of the bytes is left alone
from_file_unchecked(bytes) ==
    With(bytes, LAMBDA b :
        Ok(ParseSlots(b, 0, Len(b) \div (ENTRY_LENGTH + 6), ClientAuthRememberList)))

\* ClientAuthRememberList.from_file, of the bytes read from the path
from_file(bytes) ==
    With(bytes, LAMBDA b :
        IF Len(b) = 0 THEN Ok(ClientAuthRememberList)
        ELSE IF Len(b) % (ENTRY_LENGTH + 6) # 0
        THEN [err |-> "ValueError", val |-> ClientAuthRememberList]
        ELSE Ok(ParseSlots(b, 0, Len(b) \div (ENTRY_LENGTH + 6), ClientAuthRememberList)))

---------------------------------------------------------------------------
(* Inputs *)

\* the most entries a list holds in the model
MaxEntries == 2

HTTPS == <<104,116,116,112,115>>

HTTP == <<104,116,116,112>>

\* example.com
HOST_EXAMPLE == <<101,120,97,109,112,108,101,46,99,111,109>>

\* localhost
HOST_LOCAL == <<108,111,99,97,108,104,111,115,116>>

\* intranet.corp.example.org
HOST_INTRANET ==
    <<105,110,116,114,97,110,101,116,46,99,111,114,112,46,101,120,97,109,112,108,101,46,111,114,103>>

\* 119 times 'a', then .com: a partition key text of 276 bytes
HOST_LONG == [i \in 1..119 |-> 97] \o <<46,99,111,109>>

\* münchen.de: a host that is not ASCII
HOST_UMLAUT == <<109,252,110,99,104,101,110,46,100,101>>

\* serial number 65537 (three bytes), issuer b'DER'
CERT_A == ClientCert(65537, <<68,69,82>>)

\* serial number 255 (one byte), a two-byte issuer
CERT_B == ClientCert(255, <<48,0>>)

\* the arguments of __init__ and the day of the call:
\* <<host, cert, port, scheme, last_modified, now>>
EntryArgs ==
    { <<HOST_EXAMPLE,  CERT_A, None,        HTTPS, None,     20000>>,
      <<HOST_LOCAL,    CERT_B, PyInt(8443), HTTP,  PyInt(0), 20000>>,
      <<HOST_EXAMPLE,  None,   None,        HTTPS, PyInt(1), 20000>>,
      <<HOST_INTRANET, None,   PyInt(443),  HTTPS, None,     20001>>,
      <<HOST_LONG,     None,   None,        HTTPS, None,     20000>>,
      <<HOST_UMLAUT,   None,   None,        HTTPS, None,     20000>> }

Entries ==
    { ClientAuthRememberListEntry(a[1], a[2], a[3], a[4], a[5], a[6]) : a \in EntryArgs }

Positions == (0 - (MaxEntries + 1))..(MaxEntries + 1)

---------------------------------------------------------------------------
(* Spec: one ClientAuthRememberList object under any sequence of add_entry, *)
(* remove_entry and to_bytes calls                                          *)

self == [entries_allowed |-> entries_allowed, entries_blocked |-> entries_blocked]

HasCert(e) == e.cert # None

NoCert(e) == e.cert = None

\* the k-th (from 1) element of seq that satisfies Test is taken out
RemoveNth(seq, k, Test(_)) ==
    LET idx == {i \in 1..Len(seq) :
                   Test(seq[i]) /\ Cardinality({j \in 1..i : Test(seq[j])}) = k}
        i   == CHOOSE i \in idx : TRUE
    IN  IF idx = {} THEN seq ELSE SubSeq(seq, 1, i - 1) \o SubSeq(seq, i + 1, Len(seq))

\* the variables of the runs a specification does not make
NoEntryRun ==
    /\ entry = None
    /\ data = Ok(<<>>)
    /\ decoded = Ok(None)

NoListRun ==
    /\ added = <<>>

NoFileRun ==
    /\ file = <<>>
    /\ origin = "none"

Returned(op, arg, err, val) == [op |-> op, arg |-> arg, err |-> err, val |-> val]

Init ==
    /\ NoEntryRun
    /\ NoFileRun
    /\ entries_allowed = ClientAuthRememberList.entries_allowed
    /\ entries_blocked = ClientAuthRememberList.entries_blocked
    /\ added = <<>>
    /\ ret = Returned("__init__", 0, "", <<>>)
    /\ pc = "list"

AddEntry(e) ==
    /\ pc = "list"
    /\ Len(added) < MaxEntries
    /\ LET after == add_entry(self, e)
       IN  /\ entries_allowed' = after.entries_allowed
           /\ entries_blocked' = after.entries_blocked
    /\ added' = Append(added, e)
    /\ ret' = Returned("add_entry", 0, "", <<>>)
    /\ UNCHANGED <<entry, data, decoded, file, origin, pc>>

\* `added` loses the object that del took out of its list: the one at index
\* position (from the end when negative) of entries_allowed, or at index
\* position - len(entries_allowed) of entries_blocked
RemoveEntry(position) ==
    /\ pc = "list"
    /\ LET r == remove_entry(self, position)
           n == Len(entries_allowed)
       IN  /\ entries_allowed' = r.val.entries_allowed
           /\ entries_blocked' = r.val.entries_blocked
           /\ ret' = Returned("remove_entry", position, r.err, <<>>)
           /\ added' = IF r.err # "" THEN added
                       ELSE IF position < n
                       THEN RemoveNth(added, (IF position < 0 THEN position + n ELSE position) + 1,
                                      HasCert)
                       ELSE RemoveNth(added, (position - n) + 1, NoCert)
    /\ UNCHANGED <<entry, data, decoded, file, origin, pc>>

ToBytes ==
    /\ pc = "list"
    /\ LET r == List_to_bytes(self)
       IN  ret' = Returned("to_bytes", 0, r.err, r.val)
    /\ UNCHANGED <<entry, data, decoded, entries_allowed, entries_blocked, added,
                   file, origin, pc>>

Next ==
    \/ \E e \in Entries : AddEntry(e)
    \/ \E position \in Positions : RemoveEntry(position)
    \/ ToBytes

Spec == Init /\ [][Next]_vars

---------------------------------------------------------------------------
(* SpecEntry: one entry through __init__, to_bytes and from_bytes, and      *)
(* from_bytes on regions that another writer of the file produced           *)

HOSTS == {HOST_EXAMPLE, HOST_LOCAL, HOST_INTRANET}

CERTS == {None, CERT_A, CERT_B, ClientCert(0, <<>>)}

\* 443 and 0 as the int of the signature, 8080 as the str argparse hands over
PORTS == {None, PyInt(443), PyInt(0), PyStr(<<56,48,56,48>>)}

SCHEMES == {HTTPS, HTTP}

\* a key region and a certificate region as they lie in a record
Region(key, cert) == PadTo(PadTo(key, KEY_LENGTH) \o cert, ENTRY_LENGTH)

\* h.com,,^partitionKey=%28https%2Ch.com%29
KEY_H == <<104,46,99,111,109>> \o PARTITION_KEY \o HTTPS \o PERCENT_2C
             \o <<104,46,99,111,109>> \o PERCENT_29

\* a certificate descriptor that declares serial_len and issuer_len over
\* the payload that follows the header
Descriptor(serial_len, issuer_len, payload) ==
    b64encode(Zeros(8) \o PackI(serial_len) \o PackI(issuer_len) \o payload)

ForeignRegions ==
    { \* declares 3 + 5 bytes, carries 2
      Region(KEY_H, Descriptor(3, 5, <<97,98>>)),
      \* declares 3 + 5 bytes, carries 4
      Region(KEY_H, Descriptor(3, 5, <<97,98,99,100>>)),
      \* declares what it carries
      Region(KEY_H, Descriptor(1, 2, <<7,48,0>>)),
      \* declares less than it carries
      Region(KEY_H, Descriptor(1, 2, <<7,48,0,1,2,3>>)),
      \* a header cut short
      Region(KEY_H, b64encode(Zeros(8) \o PackI(3))),
      \* not base64: abc
      Region(KEY_H, <<97,98,99>>),
      \* no certificate
      Region(KEY_H, NO_CLIENT_CERTIFICATE),
      \* no ,, after the host
      Region(<<104,46,99,111,109,44,94>>, NO_CLIENT_CERTIFICATE),
      \* no partition key after the host
      Region(<<104,46,99,111,109,44,44,94>>, NO_CLIENT_CERTIFICATE),
      \* a host that is not UTF-8
      Region(<<104,255>> \o KEY_H, NO_CLIENT_CERTIFICATE),
      \* a port written as :%2C80
      Region(<<104,46,99,111,109>> \o PARTITION_KEY \o HTTPS \o PERCENT_2C
                 \o <<104,46,99,111,109,58>> \o PERCENT_2C \o <<56,48>> \o PERCENT_29,
             NO_CLIENT_CERTIFICATE) }

InitEntry ==
    /\ NoEntryRun
    /\ NoFileRun
    /\ NoListRun
    /\ entries_allowed = <<>>
    /\ entries_blocked = <<>>
    /\ ret = Returned("none", 0, "", <<>>)
    /\ pc = "start"

Construct(host, cert, port, scheme) ==
    /\ pc = "start"
    /\ entry' = ClientAuthRememberListEntry(host, cert, port, scheme, None, 20000)
    /\ pc' = "constructed"
    /\ UNCHANGED <<data, decoded, entries_allowed, entries_blocked, added, ret, file, origin>>

EncodeEntry ==
    /\ pc = "constructed"
    /\ data' = Entry_to_bytes(entry)
    /\ pc' = "encoded"
    /\ UNCHANGED <<entry, decoded, entries_allowed, entries_blocked, added, ret, file, origin>>

Receive(region) ==
    /\ pc = "start"
    /\ data' = Ok(region)
    /\ pc' = "received"
    /\ UNCHANGED <<entry, decoded, entries_allowed, entries_blocked, added, ret, file, origin>>

DecodeEntry ==
    /\ pc \in {"encoded", "received"}
    /\ data.err = ""
    /\ decoded' = from_bytes(data.val, IF pc = "encoded" THEN entry.last_modified ELSE 0)
    /\ pc' = IF pc = "encoded" THEN "decoded" ELSE "parsed"
    /\ UNCHANGED <<entry, data, entries_allowed, entries_blocked, added, ret, file, origin>>

NextEntry ==
    \/ \E host \in HOSTS, cert \in CERTS, port \in PORTS, scheme \in SCHEMES :
          Construct(host, cert, port, scheme)
    \/ EncodeEntry
    \/ \E region \in ForeignRegions : Receive(region)
    \/ DecodeEntry

SpecEntry == InitEntry /\ [][NextEntry]_vars

---------------------------------------------------------------------------
(* SpecFile: runs of main() on ClientAuthRememberList.bin.  A run reads the *)
(* file, does one command, asks for confirmation and writes the file.       *)

\* the most entries a list holds when main() adds to it
MaxSlots == 2

\* --host, the certificate of --cert or None for --blocked, --port (a str,
\* argparse converts nothing), --scheme
AddArgs ==
    { <<HOST_EXAMPLE, CERT_A, PyStr(<<52,52,51>>), HTTPS>>,
      <<HOST_EXAMPLE, None,   None,                HTTPS>>,
      <<HOST_LOCAL,   CERT_B, None,                HTTP>> }

\* the lines of --from-file
HostFiles == { <<HOST_LOCAL, HOST_INTRANET>> }

DelIds == (0 - 1)..MaxSlots

\* records as another writer of the file leaves them: well-formed ones, and
\* ones with a header and a region that from_bytes cannot parse
RECORD_ALLOWED ==
    Slot(ClientAuthRememberListEntry(HOST_EXAMPLE, CERT_A, None, HTTPS, PyInt(19000), 0)).val

RECORD_BLOCKED ==
    Slot(ClientAuthRememberListEntry(HOST_INTRANET, None, None, HTTPS, PyInt(19001), 0)).val

RECORD_NOT_BASE64 == <<18,52,0,1,0,7>> \o Region(KEY_H, <<97,98,99>>)

RECORD_NO_KEY == <<0,0,0,1,0,9>> \o Region(<<104,46,99,111,109>>, NO_CLIENT_CERTIFICATE)

ForeignFiles ==
    { RECORD_BLOCKED,
      RECORD_BLOCKED \o RECORD_ALLOWED,
      RECORD_NOT_BASE64 \o RECORD_BLOCKED,
      RECORD_ALLOWED \o RECORD_NO_KEY \o RECORD_BLOCKED \o RECORD_ALLOWED,
      RECORD_NO_KEY,
      \* a record cut short, a record with a byte too many, a single byte
      SubSeq(RECORD_BLOCKED, 1, Len(RECORD_BLOCKED) - 1),
      RECORD_ALLOWED \o <<0>>,
      <<1>> }

InitFile ==
    /\ NoEntryRun
    /\ NoListRun
    /\ entries_allowed = <<>>
    /\ entries_blocked = <<>>
    /\ ret = Returned("none", 0, "", <<>>)
    /\ file \in {<<>>} \cup ForeignFiles
    /\ origin = IF file = <<>> THEN "to_bytes" ELSE "foreign"
    /\ pc = "shell"

\* client_list = ClientAuthRememberList.from_file(remember_list); the
\* ValueError is not caught and ends the run
MainFromFile ==
    /\ pc = "shell"
    /\ LET r == from_file(file)
       IN  /\ entries_allowed' = r.val.entries_allowed
           /\ entries_blocked' = r.val.entries_blocked
           /\ ret' = Returned("from_file", 0, r.err, <<>>)
           /\ pc' = IF r.err # "" THEN "shell" ELSE "loaded"
    /\ UNCHANGED <<entry, data, decoded, added, file, origin>>

\* the end of a run that writes nothing: the list is gone with the process
Exit(op, arg, err) ==
    /\ entries_allowed' = <<>>
    /\ entries_blocked' = <<>>
    /\ ret' = Returned(op, arg, err, <<>>)
    /\ pc' = "shell"
    /\ UNCHANGED <<entry, data, decoded, added, file, origin>>

\* cmd is None or list
MainList ==
    /\ pc = "loaded"
    /\ Exit("list", 0, "")

\* cmd is del
MainDel(id) ==
    /\ pc = "loaded"
    /\ LET r == remove_entry(self, id)
       IN  IF r.err # "" THEN Exit("remove_entry", id, r.err)
           ELSE /\ entries_allowed' = r.val.entries_allowed
                /\ entries_blocked' = r.val.entries_blocked
                /\ ret' = Returned("remove_entry", id, "", <<>>)
                /\ pc' = "confirm"
                /\ UNCHANGED <<entry, data, decoded, added, file, origin>>

\* cmd is add, with --host
MainAdd(host, cert, port, scheme) ==
    /\ pc = "loaded"
    /\ Len(entries_allowed) + Len(entries_blocked) < MaxSlots
    /\ LET e     == ClientAuthRememberListEntry(host, cert, port, scheme, None, 20000)
           after == add_entry(self, e)
       IN  /\ entries_allowed' = after.entries_allowed
           /\ entries_blocked' = after.entries_blocked
    /\ ret' = Returned("add_entry", 0, "", <<>>)
    /\ pc' = "confirm"
    /\ UNCHANGED <<entry, data, decoded, added, file, origin>>

RECURSIVE AddLines(_, _, _)
AddLines(client_list, lines, cert) ==
    IF lines = <<>> THEN client_list
    ELSE AddLines(add_entry(client_list,
                      ClientAuthRememberListEntry(Head(lines), cert, None, HTTPS, None, 20000)),
                  Tail(lines), cert)

\* cmd is add, with --from-file (run with --blocked: cert is None)
MainAddFromFile(lines, cert) ==
    /\ pc = "loaded"
    /\ Len(entries_allowed) + Len(entries_blocked) + Len(lines) <= MaxSlots
    /\ LET after == AddLines(self, lines, cert)
       IN  /\ entries_allowed' = after.entries_allowed
           /\ entries_blocked' = after.entries_blocked
    /\ ret' = Returned("add_entry", 0, "", <<>>)
    /\ pc' = "confirm"
    /\ UNCHANGED <<entry, data, decoded, added, file, origin>>

\* cmd is add, with neither --cert nor --blocked, or with no host
MainAddRefused ==
    /\ pc = "loaded"
    /\ Exit("add", 0, "")

\* confirm('Write changes?') is answered yes: client_list.to_file; an
\* exception of to_bytes ends the run before write_bytes
MainToFile ==
    /\ pc = "confirm"
    /\ LET r == List_to_bytes(self)
       IN  /\ file' = IF r.err # "" THEN file ELSE r.val
           /\ ret' = Returned("to_file", 0, r.err, <<>>)
    /\ entries_allowed' = <<>>
    /\ entries_blocked' = <<>>
    /\ pc' = "shell"
    /\ UNCHANGED <<entry, data, decoded, added, origin>>

\* confirm('Write changes?') is answered no
MainDecline ==
    /\ pc = "confirm"
    /\ Exit("confirm", 0, "")

NextFile ==
    \/ MainFromFile
    \/ MainList
    \/ \E id \in DelIds : MainDel(id)
    \/ \E a \in AddArgs : MainAdd(a[1], a[2], a[3], a[4])
    \/ \E lines \in HostFiles : MainAddFromFile(lines, None)
    \/ MainAddRefused
    \/ MainToFile
    \/ MainDecline

SpecFile == InitFile /\ [][NextFile]_vars

---------------------------------------------------------------------------
(* Properties *)

\* the length of a slot: the header of six bytes and the entry
SLOT_LENGTH == ENTRY_LENGTH + 6

\* the entry that a run of SpecEntry built keeps to the signature of
\* __init__: the port is None or an int that is not negative
WellFormed(e) == e.port = None \/ (e.port.type = "int" /\ e.port.num >= 0)

\* C1: for every well-formed entry, from_bytes(entry.to_bytes(), last_modified)
\* is an entry with the host, scheme, port, tld and certificate (serial number
\* and issuer) of the original.  The code returns match.group(3), the outer
\* group with its %2C, as the port: the property fails for every entry that
\* has a port.
C1_RoundTrip ==
    (pc = "decoded" /\ WellFormed(entry)) =>
        /\ decoded.err = ""
        /\ decoded.val.host = entry.host
        /\ decoded.val.scheme = entry.scheme
        /\ decoded.val.port = entry.port
        /\ decoded.val.tld = entry.tld
        /\ decoded.val.cert = entry.cert

\* example.com,,^partitionKey=%28https%2Cexample.com%29
KEY_EXAMPLE_SITE ==
    <<101,120,97,109,112,108,101,46,99,111,109,44,44,94,112,97,114,116,105,116,105,111,110,
      75,101,121,61,37,50,56,104,116,116,112,115,37,50,67,
      101,120,97,109,112,108,101,46,99,111,109,37,50,57>>

\* example.com,,^partitionKey=%28https%2Ccom%29
KEY_EXAMPLE_SUFFIX ==
    <<101,120,97,109,112,108,101,46,99,111,109,44,44,94,112,97,114,116,105,116,105,111,110,
      75,101,121,61,37,50,56,104,116,116,112,115,37,50,67,99,111,109,37,50,57>>

\* the entry host=example.com, no certificate, no port, scheme=https has been
\* encoded
C2_Encoded ==
    /\ pc = "encoded"
    /\ entry.host = HOST_EXAMPLE
    /\ entry.cert = None
    /\ entry.port = None
    /\ entry.scheme = HTTPS

\* 1280 bytes: the key text, zero bytes up to offset 256, the text
\* 'no client certificate', zero bytes up to the end
C2_Layout(key_text) ==
    /\ data.err = ""
    /\ Len(data.val) = 1280
    /\ SubSeq(data.val, 1, Len(key_text)) = key_text
    /\ \A i \in (Len(key_text) + 1)..256 : data.val[i] = 0
    /\ SubSeq(data.val, 257, 277) =
           <<110,111,32,99,108,105,101,110,116,32,99,101,114,116,105,102,105,99,97,116,101>>
    /\ \A i \in 278..1280 : data.val[i] = 0

\* C2 (as the code has it): encoding host=example.com, no certificate, no port,
\* scheme=https gives 1280 bytes whose key region is the text
\* example.com,,^partitionKey=%28https%2Cexample.com%29 and zero bytes up to
\* offset 256, and whose certificate region is the text 'no client certificate'
\* and zero bytes up to the end.
C2_KeyHoldsSite == C2_Encoded => C2_Layout(KEY_EXAMPLE_SITE)

\* C2 (as stated): the same with the key text
\* example.com,,^partitionKey=%28https%2Ccom%29
C2_KeyHoldsSuffix == C2_Encoded => C2_Layout(KEY_EXAMPLE_SUFFIX)

C2_Witness == C2_Encoded /\ data.err = ""

\* C3: remove_entry(p) with p negative or p at or above the number of entries
\* raises IndexError and leaves both lists as they were.  del takes a negative
\* index from the end of entries_allowed: the property fails for p = -1 on a
\* list that holds an entry with a certificate.
C3_OutOfRangeFails ==
    [][\A p \in Positions :
           (/\ RemoveEntry(p)
            /\ (p < 0 \/ p >= Len(entries_allowed) + Len(entries_blocked)))
               => /\ ret'.err = "IndexError"
                  /\ UNCHANGED <<entries_allowed, entries_blocked>>]_vars

\* bit k of n
Bit(n, k) == (n \div (2 ^ k)) % 2

\* the XOR of the 16-bit words of a sequence: bit k is the parity of the
\* words that have bit k
RECURSIVE XorFoldBits(_, _)
XorFoldBits(words, k) ==
    IF k < 0 THEN 0
    ELSE (2 ^ k) * (Cardinality({i \in 1..Len(words) : Bit(words[i], k) = 1}) % 2)
             + XorFoldBits(words, k - 1)

XorFold(words) == With(words, LAMBDA w : XorFoldBits(w, 15))

\* the 16-bit big-endian words of an even number of bytes
Words(buf) ==
    With(buf, LAMBDA b : [i \in 1..(Len(b) \div 2) |-> (b[(2 * i) - 1] * 256) + b[2 * i]])

\* the slots of the bytes that to_bytes returned
RecordsOf(buf) ==
    With(buf, LAMBDA b :
        [i \in 1..(Len(b) \div SLOT_LENGTH) |->
            SubSeq(b, (SLOT_LENGTH * (i - 1)) + 1, SLOT_LENGTH * i)])

\* to_bytes has returned bytes
C4_Written == ret.op = "to_bytes" /\ ret.err = "" /\ Len(ret.val) % SLOT_LENGTH = 0

\* C4 (as the code has it): in every record that to_bytes writes the first
\* two bytes are the XOR-fold, started from the seed 1 XOR dayCount, of the
\* 16-bit big-endian words of the 1280 bytes of the key and certificate
\* region alone.
C4_ChecksumOverRegion ==
    C4_Written =>
        \A i \in 1..(Len(ret.val) \div SLOT_LENGTH) :
            LET record == RecordsOf(ret.val)[i]
                days   == Words(SubSeq(record, 5, 6))
            IN  Words(SubSeq(record, 1, 2)) =
                    <<XorFold(<<1>> \o days \o Words(SubSeq(record, 7, SLOT_LENGTH)))>>

\* C4 (as stated): the fold, started from the seed 1 XOR dayCount, runs over
\* the words of the two bytes of lastModifiedDays and of the 1280 bytes that
\* follow them.
C4_ChecksumOverDaysAndRegion ==
    C4_Written =>
        \A i \in 1..(Len(ret.val) \div SLOT_LENGTH) :
            LET record == RecordsOf(ret.val)[i]
                days   == Words(SubSeq(record, 5, 6))
            IN  Words(SubSeq(record, 1, 2)) =
                    <<XorFold(<<1>> \o days \o Words(SubSeq(record, 5, SLOT_LENGTH)))>>

\* two records are written, of entries made on a day that is not day 0
C4_Witness ==
    /\ C4_Written
    /\ Len(ret.val) = 2 * SLOT_LENGTH
    /\ \A i \in 1..2 : Words(SubSeq(RecordsOf(ret.val)[i], 5, 6)) # <<0>>

\* the text of the certificate region of an entry
CertText(e) ==
    IF e.cert # None THEN b64encode(CertBuf(e.cert).val) ELSE NO_CLIENT_CERTIFICATE

\* C5: to_bytes either raises or returns 1286 bytes per entry with the
\* certificate region of each record 256 bytes after its header of six bytes,
\* the key text taking no more than the 256 bytes before it.  Nothing in
\* to_bytes looks at the length of the key text: the property fails for a
\* host of 123 characters, whose key text of 276 bytes pushes the certificate
\* region to offset 6 + 276.
C5_LayoutOrFailure ==
    (ret.op = "to_bytes" /\ ret.err = "") =>
        LET list == entries_allowed \o entries_blocked
        IN  /\ Len(ret.val) = SLOT_LENGTH * Len(list)
            /\ \A i \in 1..Len(list) :
                   /\ Len(KeyText(list[i]).val) <= KEY_LENGTH
                   /\ StartsAt(ret.val, (SLOT_LENGTH * (i - 1)) + 6 + KEY_LENGTH + 1,
                               CertText(list[i]))

\* C6: entries_allowed holds the surviving entries with a certificate and
\* entries_blocked those without, each in the order of the add_entry calls,
\* and to_bytes returns one record per surviving entry: those of
\* entries_allowed followed by those of entries_blocked.
C6_PartitionAndOrder ==
    /\ entries_allowed = SelectSeq(added, HasCert)
    /\ entries_blocked = SelectSeq(added, NoCert)
    /\ (ret.op = "to_bytes" /\ ret.err = "") =>
           LET survivors == SelectSeq(added, HasCert) \o SelectSeq(added, NoCert)
           IN  /\ Len(ret.val) = SLOT_LENGTH * Len(survivors)
               /\ \A i \in 1..Len(survivors) :
                      SubSeq(ret.val, (SLOT_LENGTH * (i - 1)) + 7, SLOT_LENGTH * i)
                          = Entry_to_bytes(survivors[i]).val

\* an entry without a certificate was added before one with a certificate,
\* and to_bytes has written both
C6_Witness ==
    /\ ret.op = "to_bytes"
    /\ ret.err = ""
    /\ Len(added) >= 2
    /\ NoCert(added[1])
    /\ HasCert(added[2])
    /\ Len(ret.val) = 2 * SLOT_LENGTH

\* C7: from_file raises ValueError, and hands no list to main(), exactly when
\* the length of the file is not a multiple of 1286; on a file of length 0
\* it returns a list with both sequences empty.
C7_LengthMismatch ==
    ret.op = "from_file" =>
        /\ ret.err = "ValueError" <=> Len(file) % 1286 # 0
        /\ ret.err \in {"", "ValueError"}
        /\ ret.err = "ValueError" =>
               pc = "shell" /\ entries_allowed = <<>> /\ entries_blocked = <<>>
        /\ Len(file) = 0 =>
               pc = "loaded" /\ entries_allowed = <<>> /\ entries_blocked = <<>>

\* from_file has raised on a file that holds a whole record and one byte more
C7_Witness ==
    /\ ret.op = "from_file"
    /\ ret.err = "ValueError"
    /\ Len(file) = 1287

\* slice i (from 1) of the file, read by itself: the entry of its region
\* under the day count of its header, or what from_bytes raises
SliceEntry(i) ==
    LET slice == SubSeq(file, (1286 * (i - 1)) + 1, 1286 * i)
    IN  from_bytes(SubSeq(slice, 7, 1286), (slice[5] * 256) + slice[6])

WellFormedSlice(r) == r.err = ""

\* the entries of the well-formed slices, in the order of the file
SliceEntries ==
    LET read == SelectSeq([i \in 1..(Len(file) \div 1286) |-> SliceEntry(i)], WellFormedSlice)
    IN  [i \in 1..Len(read) |-> read[i].val]

\* C8: on a file of n slices of 1286 bytes from_file raises nothing and
\* returns the entries of the well-formed slices, in the order of the file
\* within entries_allowed and within entries_blocked: a malformed slice takes
\* out nothing but itself.
C8_MalformedSliceSkipped ==
    (ret.op = "from_file" /\ Len(file) % 1286 = 0) =>
        /\ ret.err = ""
        /\ pc = "loaded"
        /\ With(SliceEntries, LAMBDA read :
               /\ entries_allowed = SelectSeq(read, HasCert)
               /\ entries_blocked = SelectSeq(read, NoCert))

\* a file of four slices, the second malformed, has been read: three entries
C8_Witness ==
    /\ ret.op = "from_file"
    /\ Len(file) = 4 * 1286
    /\ Len(entries_allowed) = 2
    /\ Len(entries_blocked) = 1

\* the bytes that base64 gives for the certificate region of data
DescriptorOf(region) == b64decode(RStripZeros(Slice(region, KEY_LENGTH, Len(region))))

\* C9: from_bytes raises when the serial length and the issuer length that
\* the descriptor declares exceed the bytes that follow its header of 16
\* bytes, and never returns an issuer shorter than declared.  The slices
\* raw[16:16 + serial_len] and raw[16 + serial_len:...] of the code are cut
\* at the end of raw without an error: the property fails.
C9_DeclaredLengthsChecked ==
    (/\ pc = "parsed"
     /\ DescriptorOf(data.val).err = ""
     /\ Len(DescriptorOf(data.val).val) >= 16) =>
        With(DescriptorOf(data.val).val, LAMBDA raw :
            LET serial_len == UnpackI(SubSeq(raw, 9, 12))
                issuer_len == UnpackI(SubSeq(raw, 13, 16))
            IN  /\ serial_len + issuer_len > Len(raw) - 16 => decoded.err # ""
                /\ (decoded.err = "" /\ decoded.val.cert # None) =>
                       Len(decoded.val.cert.issuer) = issuer_len)

\* C10: a file that to_bytes wrote is read and written back unchanged:
\* to_bytes of the list that from_file returns is the file, and the list
\* holds one entry per record of the file.  The port of an entry comes back
\* as the bytes %2C443 (C1), is written as %2Cb'%2C443' by the next to_bytes,
\* and the record after that is one that from_file skips: the property fails.
C10_CycleStable ==
    (pc = "loaded" /\ origin = "to_bytes") =>
        /\ List_to_bytes(self) = Ok(file)
        /\ Len(entries_allowed) + Len(entries_blocked) = Len(file) \div 1286

===========================================================================
